---- MODULE Spec2Model ----
(***************************************************************************)
(* Workflow graph validation of register_workflow.py: extract_rank,        *)
(* build_adjacency_graph, is_cyclic, predecessors_list and check_dag.      *)
(*                                                                         *)
(* A Python str is a sequence of one-character strings, so that split(),   *)
(* endswith(), int() and f-string formatting are computed, not assumed.    *)
(* A dict is kept in insertion order (the iteration order of Python 3.7+). *)
(* sys.exit(1) and an uncaught exception both end check_dag; the outcome   *)
(* records which of them it was.                                           *)
(***************************************************************************)
EXTENDS Integers, Sequences, FiniteSets, TLC

VARIABLES
    faasr_payload,  \* the workflow definition: ActionList (ordered) and FunctionInvoke
    pc,             \* position inside check_dag
    adj_graph,      \* defaultdict(list): sequence of [func, next] in key insertion order
    ranks,          \* dict: action name -> rank
    edge,           \* number of successor references build_adjacency_graph has processed
    visited,        \* set of visited nodes
    stack,          \* the recursion call stack list of is_cyclic
    frames,         \* the Python call frames of is_cyclic: [curr, idx] (idx: children done)
    first_func,     \* the traversal root found by check_dag, <<>> while there is none
    outcome,        \* "running", "ok", or the kind of failure
    err_info,       \* what the failure message names
    real_pre,       \* the list check_dag returns
    run,            \* 1 for the first call of check_dag on the payload, 2 for the second
    prev,           \* outcome and list of the first call, once the second one has begun
    str_input,      \* argument of a direct call of extract_rank
    parsed          \* result of that call

vars == <<faasr_payload, pc, adj_graph, ranks, edge, visited, stack, frames,
          first_func, outcome, err_info, real_pre, run, prev, str_input, parsed>>

-----------------------------------------------------------------------------
(* Bounds of the model *)

\* successor references per workflow, over all InvokeNext entries
MaxRefs == 3
\* length of the strings handed directly to extract_rank
MaxLen == 5

-----------------------------------------------------------------------------
(* Strings *)

Digits == <<"0", "1", "2", "3", "4", "5", "6", "7", "8", "9">>

IsDigit(c) == \E d \in 1..10 : Digits[d] = c

DigitVal(c) == (CHOOSE d \in 1..10 : Digits[d] = c) - 1

\* positions of character c in string s
Positions(s, c) == {i \in 1..Len(s) : s[i] = c}

Min(S) == CHOOSE x \in S : \A y \in S : x <= y

\* s.split(c)[0]
SplitFirst(s, c) ==
    IF Positions(s, c) = {} THEN s ELSE SubSeq(s, 1, Min(Positions(s, c)) - 1)

\* value of a string of decimal digits
RECURSIVE DecValue(_)
DecValue(s) ==
    IF s = <<>> THEN 0 ELSE 10 * DecValue(SubSeq(s, 1, Len(s) - 1)) + DigitVal(s[Len(s)])

\* the strings int() accepts, among those over the modelled characters:
\* an optional sign followed by at least one decimal digit
IsIntLiteral(s) ==
    LET body == IF s # <<>> /\ s[1] \in {"-", "+"} THEN Tail(s) ELSE s
    IN  body # <<>> /\ \A i \in 1..Len(body) : IsDigit(body[i])

\* int(s) for such a string
IntOf(s) ==
    IF s[1] = "-" THEN 0 - DecValue(Tail(s))
    ELSE IF s[1] = "+" THEN DecValue(Tail(s))
    ELSE DecValue(s)

\* str(n) for n >= 0, as in f"{i}"
RECURSIVE ToStr(_)
ToStr(n) ==
    IF n < 10 THEN <<Digits[n + 1]>> ELSE ToStr(n \div 10) \o <<Digits[(n % 10) + 1]>>

-----------------------------------------------------------------------------
(* extract_rank *)

\* the result of a call: the exception it raised, or "none" and the pair it returned
Returned(name, rank) == [raised |-> "none", action_name |-> name, rank |-> rank]
Raised(kind) == [raised |-> kind, action_name |-> <<>>, rank |-> 0]

\* no call was made yet
NotCalled == Raised("not called")

extract_rank(s) ==
    LET opens == Positions(s, "(")
        p     == Min(opens)
        part0 == SubSeq(s, 1, p - 1)
        part1 == SubSeq(s, p + 1, Len(s))
        inner == SubSeq(part1, 1, Len(part1) - 1)
    IN  IF Cardinality(opens) # 1 \/ part1 = <<>> \/ part1[Len(part1)] # ")"
        THEN Returned(s, 1)
        ELSE IF IsIntLiteral(inner)
             THEN Returned(part0, IntOf(inner))
             ELSE Raised("ValueError")

-----------------------------------------------------------------------------
(* The workflow definition *)

\* InvokeNext values: a str, a list, or (inside a list) a dict of conditional
\* branches, of which the code reads only the values, in order
Str(ref) == [type |-> "str", val |-> ref]
List(entries) == [type |-> "list", val |-> entries]
Dict(branches) == [type |-> "dict", val |-> branches]

\* the keys of payload["ActionList"], in declaration order
ActionKeys(payload) ==
    [i \in 1..Len(payload.ActionList) |-> payload.ActionList[i].name]

Range(s) == {s[i] : i \in 1..Len(s)}

RECURSIVE Flat(_)
Flat(ss) == IF ss = <<>> THEN <<>> ELSE Head(ss) \o Flat(Tail(ss))

\* the list the loop over invoke_next iterates
Normalise(invoke_next) ==
    IF invoke_next.type = "str" THEN <<invoke_next>> ELSE invoke_next.val

\* the arguments of process_action for one child, in call order
ChildActions(child) ==
    IF child.type = "dict" THEN Flat(child.val) ELSE <<child.val>>

\* every call of process_action that build_adjacency_graph makes when none of
\* them fails, in order: the owning func and the reference string
ProcessCalls(payload) ==
    LET OfAction(a) ==
            LET children == Normalise(a.InvokeNext)
                actions  == Flat([i \in 1..Len(children) |-> ChildActions(children[i])])
            IN  [i \in 1..Len(actions) |-> [func |-> a.name, action |-> actions[i]]]
    IN  Flat([i \in 1..Len(payload.ActionList) |-> OfAction(payload.ActionList[i])])

-----------------------------------------------------------------------------
(* dict and defaultdict(list) *)

EmptyDict == [k \in {} |-> 0]

\* d[k] = v
DictSet(d, k, v) == (k :> v) @@ d

AdjKeys(g) == [i \in 1..Len(g) |-> g[i].func]

AdjHas(g, f) == \E i \in 1..Len(g) : g[i].func = f

\* the value read by adj_graph[f]
AdjGet(g, f) ==
    IF AdjHas(g, f) THEN g[CHOOSE i \in 1..Len(g) : g[i].func = f].next ELSE <<>>

\* the defaultdict after adj_graph[f] was read: a missing key is inserted
AdjTouch(g, f) ==
    IF AdjHas(g, f) THEN g ELSE Append(g, [func |-> f, next |-> <<>>])

\* adj_graph[f].append(c)
AdjAppend(g, f, c) ==
    LET t == AdjTouch(g, f)
    IN  [i \in 1..Len(t) |->
            IF t[i].func = f THEN [t[i] EXCEPT !.next = Append(@, c)] ELSE t[i]]

\* a rank table that outlives the call
StaleRanks == ranks

\* lines 104-105: the locals build_adjacency_graph starts from
NewAdjGraph == <<>>
NewRanks == EmptyDict

-----------------------------------------------------------------------------
(* check_dag, step by step *)

\* sys.exit(1), or an exception nobody catches
Abort(kind, info) ==
    /\ outcome' = kind
    /\ err_info' = info
    /\ pc' = "exit"

\* a check_dag that does not test FunctionInvoke
EntryUnchecked(payload) == TRUE

\* lines 159-164: the target must be declared; then build_adjacency_graph begins
EntryOk(payload) == payload.FunctionInvoke \in Range(ActionKeys(payload))

check_entry ==
    /\ pc = "start"
    /\ IF EntryOk(faasr_payload)
       THEN /\ pc' = "build"
            /\ adj_graph' = NewAdjGraph
            /\ ranks' = NewRanks
            /\ UNCHANGED <<outcome, err_info>>
       ELSE /\ Abort("InvalidEntryPoint", <<>>)
            /\ UNCHANGED <<adj_graph, ranks>>
    /\ UNCHANGED <<faasr_payload, edge, visited, stack, frames, first_func,
                   real_pre, run, prev, str_input, parsed>>

\* line 116: the reference names an action already recorded with rank > 1
RankClash(rk, action_name) == action_name \in DOMAIN rk /\ rk[action_name] > 1

\* lines 114-122: one call of process_action
process_action ==
    /\ pc = "build"
    /\ edge < Len(ProcessCalls(faasr_payload))
    /\ LET call == ProcessCalls(faasr_payload)[edge + 1]
           r    == extract_rank(call.action)
       IN  IF r.raised # "none"
           THEN /\ Abort(r.raised, <<>>)
                /\ UNCHANGED <<adj_graph, ranks, edge>>
           ELSE IF RankClash(ranks, r.action_name)
           THEN /\ Abort("AmbiguousRankedPredecessor", <<r.action_name>>)
                /\ UNCHANGED <<adj_graph, ranks, edge>>
           ELSE /\ adj_graph' = AdjAppend(adj_graph, call.func, r.action_name)
                /\ ranks' = DictSet(ranks, r.action_name, r.rank)
                /\ edge' = edge + 1
                /\ UNCHANGED <<pc, outcome, err_info>>
    /\ UNCHANGED <<faasr_payload, visited, stack, frames, first_func,
                   real_pre, run, prev, str_input, parsed>>

\* lines 131-133: every key of adj_graph without a rank gets rank 0
RootRanks(g, rk) ==
    LET keys == Range(AdjKeys(g))
    IN  [k \in (DOMAIN rk) \cup keys |-> IF k \in DOMAIN rk THEN rk[k] ELSE 0]

\* lines 131-135 and 166-170: build_adjacency_graph returns
build_return ==
    /\ pc = "build"
    /\ edge = Len(ProcessCalls(faasr_payload))
    /\ ranks' = RootRanks(adj_graph, ranks)
    /\ stack' = <<>>
    /\ visited' = {}
    /\ pc' = "find_initial"
    /\ UNCHANGED <<faasr_payload, adj_graph, edge, frames, first_func, outcome,
                   err_info, real_pre, run, prev, str_input, parsed>>

\* a scan that also takes an action of rank 1 for the initial one
FindInitialUpToOne(keys, rk) ==
    LET stops == {i \in 1..Len(keys) : keys[i] \notin DOMAIN rk \/ rk[keys[i]] <= 1}
        i     == Min(stops)
    IN  IF stops = {} THEN [kind |-> "NoRoot", func |-> <<>>]
        ELSE IF keys[i] \notin DOMAIN rk THEN [kind |-> "KeyError", func |-> keys[i]]
        ELSE [kind |-> "found", func |-> keys[i]]

\* lines 172-186: the scan for the initial function. ranks[func] raises KeyError
\* for a key that is not there.
FindInitial(keys, rk) ==
    LET stops == {i \in 1..Len(keys) : keys[i] \notin DOMAIN rk \/ rk[keys[i]] = 0}
        i     == Min(stops)
    IN  IF stops = {} THEN [kind |-> "NoRoot", func |-> <<>>]
        ELSE IF keys[i] \notin DOMAIN rk THEN [kind |-> "KeyError", func |-> keys[i]]
        ELSE [kind |-> "found", func |-> keys[i]]

find_initial ==
    /\ pc = "find_initial"
    /\ LET f == FindInitial(ActionKeys(faasr_payload), ranks)
       IN  IF f.kind = "found"
           THEN /\ first_func' = f.func
                /\ pc' = "check_cycles"
                /\ UNCHANGED <<outcome, err_info>>
           ELSE /\ Abort(f.kind, IF f.kind = "KeyError" THEN <<f.func>> ELSE <<>>)
                /\ UNCHANGED first_func
    /\ UNCHANGED <<faasr_payload, adj_graph, ranks, edge, visited, stack, frames,
                   real_pre, run, prev, str_input, parsed>>

\* a test that sees only the node on top of the stack
OnStackTop(node, stk) == stk # <<>> /\ node = stk[Len(stk)]

\* a test that takes every visited node for one on the stack
SeenBefore(node, stk) == node \in visited

\* lines 72 and 84: curr in stack, child in stack
OnStack(node, stk) == node \in Range(stk)

\* an entry that leaves out visited.add(curr)
EnterUnmarked(curr) ==
    /\ visited' = visited
    /\ stack' = Append(stack, curr)
    /\ frames' = Append(frames, [curr |-> curr, idx |-> 0])
    /\ adj_graph' = AdjTouch(adj_graph, curr)

\* lines 72-73 fail to hold, then lines 76-77 and the read of adj_graph[curr] in line 80
Enter(curr) ==
    /\ visited' = visited \cup {curr}
    /\ stack' = Append(stack, curr)
    /\ frames' = Append(frames, [curr |-> curr, idx |-> 0])
    /\ adj_graph' = AdjTouch(adj_graph, curr)

\* line 189: the call is_cyclic(adj_graph, first_func, visited, stack), whose
\* return value check_dag does not read
is_cyclic_start ==
    /\ pc = "check_cycles"
    /\ IF OnStack(first_func, stack)
       THEN /\ pc' = "check_unreachable"
            /\ UNCHANGED <<visited, stack, frames, adj_graph>>
       ELSE /\ pc' = "dfs"
            /\ Enter(first_func)
    /\ UNCHANGED <<faasr_payload, ranks, edge, first_func, outcome, err_info,
                   real_pre, run, prev, str_input, parsed>>

\* the frame on top, the list its loop iterates and the child the loop is at
Top == frames[Len(frames)]
Children == AdjGet(adj_graph, Top.curr)
Child == Children[Top.idx + 1]

\* lines 80-83: a child not in visited: the recursive call; it returns True at
\* once when the child is on the stack, and the caller then exits
is_cyclic_descend ==
    /\ pc = "dfs"
    /\ Top.idx < Len(Children)
    /\ Child \notin visited
    /\ IF OnStack(Child, stack)
       THEN /\ Abort("CyclicGraph", <<Top.curr, Child>>)
            /\ UNCHANGED <<visited, stack, frames, adj_graph>>
       ELSE /\ Enter(Child)
            /\ UNCHANGED <<pc, outcome, err_info>>
    /\ UNCHANGED <<faasr_payload, ranks, edge, first_func, real_pre, run, prev,
                   str_input, parsed>>

\* lines 81, 84-86: a child in visited: a loop if it is on the stack, skipped if not
is_cyclic_seen ==
    /\ pc = "dfs"
    /\ Top.idx < Len(Children)
    /\ Child \in visited
    /\ IF OnStack(Child, stack)
       THEN /\ Abort("CyclicGraph", <<Top.curr, Child>>)
            /\ UNCHANGED frames
       ELSE /\ frames' = [frames EXCEPT ![Len(frames)].idx = @ + 1]
            /\ UNCHANGED <<pc, outcome, err_info>>
    /\ UNCHANGED <<faasr_payload, adj_graph, ranks, edge, visited, stack, first_func,
                   real_pre, run, prev, str_input, parsed>>

\* lines 88-91: the loop is over: pop and return False. The caller, if there is
\* one, evaluates line 84 for the child that returned and goes on with its loop.
is_cyclic_return ==
    /\ pc = "dfs"
    /\ Top.idx = Len(Children)
    /\ LET popped == SubSeq(stack, 1, Len(stack) - 1)
           callers == SubSeq(frames, 1, Len(frames) - 1)
       IN  /\ stack' = popped
           /\ IF callers = <<>>
              THEN /\ frames' = callers
                   /\ pc' = "check_unreachable"
                   /\ UNCHANGED <<outcome, err_info>>
              ELSE IF OnStack(Top.curr, popped)
              THEN /\ frames' = callers
                   /\ Abort("CyclicGraph", <<callers[Len(callers)].curr, Top.curr>>)
              ELSE /\ frames' = [callers EXCEPT ![Len(callers)].idx = @ + 1]
                   /\ UNCHANGED <<pc, outcome, err_info>>
    /\ UNCHANGED <<faasr_payload, adj_graph, ranks, edge, visited, first_func,
                   real_pre, run, prev, str_input, parsed>>

\* line 194: the test applied to each declared func
SeenByDfs(func, vis) == SplitFirst(func, ".") \in vis

\* lines 191-196
check_unreachable ==
    /\ pc = "check_unreachable"
    /\ LET keys == ActionKeys(faasr_payload)
           missing == {i \in 1..Len(keys) : ~SeenByDfs(keys[i], visited)}
       IN  IF missing # {}
           THEN Abort("UnreachableAction", <<keys[Min(missing)]>>)
           ELSE /\ pc' = "resolve"
                /\ UNCHANGED <<outcome, err_info>>
    /\ UNCHANGED <<faasr_payload, adj_graph, ranks, edge, visited, stack, frames,
                   first_func, real_pre, run, prev, str_input, parsed>>

\* the pairs (func1, func2) in the order the loops of predecessors_list meet them
AdjEdges(g) ==
    Flat([i \in 1..Len(g) |->
            [j \in 1..Len(g[i].next) |-> [func1 |-> g[i].func, func2 |-> g[i].next[j]]]])

\* lines 143-147
RECURSIVE PreOf(_, _)
PreOf(pre, edges) ==
    IF edges = <<>> THEN pre
    ELSE PreOf(AdjAppend(pre, Head(edges).func2, Head(edges).func1), Tail(edges))

predecessors_list(g) == PreOf(<<>>, AdjEdges(g))

\* instances numbered from 0, as range(ranks[p]) would
InstanceFromZero(p, i) == p \o <<".">> \o ToStr(i - 1)

\* the identifier appended for instance i of p, f"{p}.{i}"
Instance(p, i) == p \o <<".">> \o ToStr(i)

\* lines 204-208: what one predecessor adds to real_pre
Expand(p, rk) ==
    IF p \in DOMAIN rk /\ rk[p] > 1
    THEN [i \in 1..rk[p] |-> Instance(p, i)]
    ELSE <<p>>

\* lines 198-209
RealPre(g, rk, target) ==
    LET curr_pre == AdjGet(predecessors_list(g), target)
    IN  Flat([k \in 1..Len(curr_pre) |-> Expand(curr_pre[k], rk)])

resolve ==
    /\ pc = "resolve"
    /\ real_pre' = RealPre(adj_graph, ranks, faasr_payload.FunctionInvoke)
    /\ outcome' = "ok"
    /\ pc' = "exit"
    /\ UNCHANGED <<faasr_payload, adj_graph, ranks, edge, visited, stack, frames,
                   first_func, err_info, run, prev, str_input, parsed>>

\* the caller validates the same definition a second time
NoResult == [outcome |-> "none", real_pre |-> <<>>, err_info |-> <<>>]

check_again ==
    /\ pc = "exit"
    /\ run = 1
    /\ run' = 2
    /\ prev' = [outcome |-> outcome, real_pre |-> real_pre, err_info |-> err_info]
    /\ pc' = "start"
    /\ edge' = 0
    /\ visited' = {}
    /\ stack' = <<>>
    /\ frames' = <<>>
    /\ first_func' = <<>>
    /\ outcome' = "running"
    /\ err_info' = <<>>
    /\ real_pre' = <<>>
    /\ UNCHANGED <<faasr_payload, adj_graph, ranks, str_input, parsed>>

-----------------------------------------------------------------------------
(* The workflow definitions checked *)

nA == <<"A">>
nB == <<"B">>
nC == <<"C">>
nB1 == <<"B", ".", "1">>

\* the name of an action nobody declares
nZ == <<"Z">>

Ranked(name, k) == name \o <<"(">> \o k \o <<")">>

\* The names actions are declared under, in declaration order, and the
\* successor references written in InvokeNext: plain, with a rank, with rank 0,
\* with a rank that is no number; and a vocabulary with a name that has a dot.
Vocabularies ==
    { [names |-> <<nA, nB, nC>>,
       refs  |-> {nA, nB, nC, Ranked(nB, <<"3">>), Ranked(nA, <<"0">>), Ranked(nB, <<"x">>)}],
      [names |-> <<nA, nB, nB1>>,
       refs  |-> {nA, nB, nB1, nC}] }

\* the InvokeNext value holding the references rs, written in one of two styles
InvokeNextOf(rs, style) ==
    IF style = "list" \/ rs = <<>> THEN List([i \in 1..Len(rs) |-> Str(rs[i])])
    ELSE IF Len(rs) = 1 THEN Str(rs[1])
    ELSE List(<<Str(rs[1]), Dict(<< <<rs[2]>>, SubSeq(rs, 3, Len(rs)) >>)>>)

RECURSIVE SumTo(_, _)
SumTo(f, n) == IF n = 0 THEN 0 ELSE f[n] + SumTo(f, n - 1)

Increasing(f) == \A i, j \in DOMAIN f : i < j => f[i] < f[j]

\* the definition declaring the names picked, with lens[i]
\* references of flat in the InvokeNext of the i-th
Payload(names, pick, lens, flat, style, target) ==
    [ActionList |-> [i \in 1..Len(pick) |->
        [name |-> names[pick[i]],
         InvokeNext |-> InvokeNextOf(
             SubSeq(flat, SumTo(lens, i - 1) + 1, SumTo(lens, i)), style)]],
     FunctionInvoke |-> target]

Init ==
    /\ \E voc \in Vocabularies :
       \E n \in 1..Len(voc.names) :
       \E pick \in {p \in [1..n -> 1..Len(voc.names)] : Increasing(p)} :
       \E lens \in {l \in [1..n -> 0..MaxRefs] : SumTo(l, n) <= MaxRefs} :
       \E flat \in [1..SumTo(lens, n) -> voc.refs] :
       \E style \in {"list", "mixed"} :
       \E target \in {voc.names[pick[i]] : i \in 1..n} \cup {nZ} :
           faasr_payload = Payload(voc.names, pick, lens, flat, style, target)
    /\ pc = "start"
    /\ adj_graph = <<>>
    /\ ranks = EmptyDict
    /\ edge = 0
    /\ visited = {}
    /\ stack = <<>>
    /\ frames = <<>>
    /\ first_func = <<>>
    /\ outcome = "running"
    /\ err_info = <<>>
    /\ real_pre = <<>>
    /\ run = 1
    /\ prev = NoResult
    /\ str_input = <<>>
    /\ parsed = NotCalled

Next ==
    \/ check_entry
    \/ process_action
    \/ build_return
    \/ find_initial
    \/ is_cyclic_start
    \/ is_cyclic_descend
    \/ is_cyclic_seen
    \/ is_cyclic_return
    \/ check_unreachable
    \/ resolve
    \/ check_again

Spec == Init /\ [][Next]_vars

-----------------------------------------------------------------------------
(* extract_rank called on its own *)

\* the characters of the strings tried: a letter, the parentheses, a digit,
\* a sign and a character that is neither
ParseChars == {"A", "(", ")", "2", "-", "x"}

InitParse ==
    /\ str_input \in UNION {[1..n -> ParseChars] : n \in 0..MaxLen}
    /\ parsed = NotCalled
    /\ pc = "extract_rank"
    /\ faasr_payload = [ActionList |-> <<>>, FunctionInvoke |-> <<>>]
    /\ adj_graph = <<>>
    /\ ranks = EmptyDict
    /\ edge = 0
    /\ visited = {}
    /\ stack = <<>>
    /\ frames = <<>>
    /\ first_func = <<>>
    /\ outcome = "running"
    /\ err_info = <<>>
    /\ real_pre = <<>>
    /\ run = 1
    /\ prev = NoResult

call_extract_rank ==
    /\ pc = "extract_rank"
    /\ parsed' = extract_rank(str_input)
    /\ pc' = "exit"
    /\ UNCHANGED <<faasr_payload, adj_graph, ranks, edge, visited, stack, frames,
                   first_func, outcome, err_info, real_pre, run, prev, str_input>>

NextParse == call_extract_rank

SpecParse == InitParse /\ [][NextParse]_vars

-----------------------------------------------------------------------------
(* Graphs, for stating the properties *)

Declared == Range(ActionKeys(faasr_payload))

TargetDeclared == faasr_payload.FunctionInvoke \in Declared

\* the edges of an adjacency structure, as a set of pairs
EdgeSet(g) == {<<e.func1, e.func2>> : e \in Range(AdjEdges(g))}

\* the nodes reached from the nodes of S along one or more edges of E
RECURSIVE ReachFrom(_, _, _)
ReachFrom(E, S, seen) ==
    LET nxt == {e[2] : e \in {d \in E : d[1] \in S}} \ seen
    IN  IF nxt = {} THEN seen ELSE ReachFrom(E, nxt, seen \cup nxt)

Successors(E, n) == ReachFrom(E, {n}, {})

Reachable(E, n) == {n} \cup Successors(E, n)

OnCycle(E, n) == n \in Successors(E, n)

InDegree(g, n) == Cardinality({k \in 1..Len(AdjEdges(g)) : AdjEdges(g)[k].func2 = n})

\* every successor reference of the definition has a rank int() can read
RefsParse == \A c \in Range(ProcessCalls(faasr_payload)) : extract_rank(c.action).raised = "none"

\* the edges the definition declares: owning action -> base name of the reference
DeclaredEdges ==
    {<<c.func, extract_rank(c.action).action_name>> : c \in Range(ProcessCalls(faasr_payload))}

\* the declared actions without an incoming edge
DeclaredRoots == {a \in Declared : ~\E e \in DeclaredEdges : e[2] = a}

\* build_adjacency_graph has returned in this call of check_dag
BuildDone ==
    /\ pc \notin {"start", "build"}
    /\ outcome \notin {"InvalidEntryPoint", "ValueError", "AmbiguousRankedPredecessor"}

\* the scan for the initial function found one
RootSelected == first_func # <<>>

-----------------------------------------------------------------------------
(* Properties *)

Acyclic(E) == \A e \in E : ~OnCycle(E, e[1])

\* the definition declares an acyclic graph with one root from which every
\* declared action is reached
SingleRootedDag ==
    /\ RefsParse
    /\ Acyclic(DeclaredEdges)
    /\ Cardinality(DeclaredRoots) = 1
    /\ \A r \in DeclaredRoots : Declared \subseteq Reachable(DeclaredEdges, r)

\* the predecessors of the target, one per edge, in edge order
TargetPredecessors ==
    LET calls == ProcessCalls(faasr_payload)
        into  == SelectSeq(calls, LAMBDA c :
                    extract_rank(c.action).action_name = faasr_payload.FunctionInvoke)
    IN  [k \in 1..Len(into) |-> into[k].func]

RankOrOne(p) == IF p \in DOMAIN ranks /\ ranks[p] > 1 THEN ranks[p] ELSE 1

RECURSIVE SumRanks(_)
SumRanks(ps) == IF ps = <<>> THEN 0 ELSE RankOrOne(Head(ps)) + SumRanks(Tail(ps))

\* C1: for every acyclic, single-rooted, fully reachable workflow with a
\* declared target (a single action with an empty InvokeNext included),
\* check_dag succeeds and returns a list as long as the sum, over the target's
\* immediate predecessors, of the predecessor's rank if > 1 and of 1 otherwise.
C1_DagResolves ==
    (pc = "exit" /\ TargetDeclared /\ SingleRootedDag)
        => (outcome = "ok" /\ Len(real_pre) = SumRanks(TargetPredecessors))


\* C2: when graph building and root selection pass and some node reachable
\* from the selected root lies on a cycle (a self-loop included), validation
\* fails with CyclicGraph and returns no predecessor list.
C2_ReachableCycleRejected ==
    (/\ pc = "exit"
     /\ RootSelected
     /\ \E n \in Reachable(EdgeSet(adj_graph), first_func) : OnCycle(EdgeSet(adj_graph), n))
        => (outcome = "CyclicGraph" /\ real_pre = <<>>)

\* a cycle that does not pass through the root was found at depth three
C2_Witness ==
    /\ pc = "exit"
    /\ outcome = "CyclicGraph"
    /\ Len(stack) = 3
    /\ ~OnCycle(EdgeSet(adj_graph), first_func)

\* a self-loop was found
C2_WitnessSelfLoop ==
    /\ pc = "exit"
    /\ outcome = "CyclicGraph"
    /\ err_info[1] = err_info[2]

\* C3: when some declared action is not reachable from the selected root,
\* validation fails with UnreachableAction, whatever the declaration order and
\* the characters of the names. Stated for the runs in which the traversal
\* from the root completes, where no earlier failure can take precedence.
C3_UnreachableRejected ==
    (/\ pc = "exit"
     /\ TargetDeclared
     /\ RootSelected
     /\ outcome # "CyclicGraph"
     /\ ~(Declared \subseteq Reachable(EdgeSet(adj_graph), first_func)))
        => outcome = "UnreachableAction"

\* C4: when FunctionInvoke is not a key of ActionList, check_dag fails with
\* InvalidEntryPoint whatever else is wrong with the graph.
C4_InvalidEntryPointFirst ==
    (pc = "exit" /\ ~TargetDeclared) => outcome = "InvalidEntryPoint"

\* the references of the definition, in processing order
RefSeq == [k \in 1..Len(ProcessCalls(faasr_payload)) |-> ProcessCalls(faasr_payload)[k].action]

\* an undeclared target, in a graph that has a ranked action referenced twice
\* and an action on a self-loop
C4_Witness ==
    /\ pc = "exit"
    /\ outcome = "InvalidEntryPoint"
    /\ \E i, j \in 1..Len(RefSeq) :
            i < j /\ RefSeq[i] = Ranked(nB, <<"3">>) /\ RefSeq[j] = Ranked(nB, <<"3">>)
    /\ RefsParse
    /\ \E a \in Declared : <<a, a>> \in DeclaredEdges


\* the identifiers p.1 ... p.r when the Rank Table gives p the rank r > 1, p otherwise
Siblings(p) ==
    IF p \in DOMAIN ranks /\ ranks[p] > 1
    THEN [i \in 1..ranks[p] |-> p \o <<".">> \o ToStr(i)]
    ELSE <<p>>

\* C5: on success the returned list is the concatenation, over the target's
\* immediate predecessors in Predecessor Map order (one entry per edge), of
\* p.1, ..., p.r in ascending order when the rank r of p is > 1, and of p otherwise.
C5_RankExpansionInOrder ==
    (pc = "exit" /\ outcome = "ok")
        => real_pre = Flat([k \in 1..Len(TargetPredecessors) |-> Siblings(TargetPredecessors[k])])

\* the sole predecessor B of the target has rank 3
C5_Witness ==
    /\ pc = "exit"
    /\ outcome = "ok"
    /\ TargetPredecessors = <<nB>>
    /\ real_pre = <<nB \o <<".", "1">>, nB \o <<".", "2">>, nB \o <<".", "3">>>>

\* two predecessors, the second one ranked
C5_WitnessMixed ==
    /\ pc = "exit"
    /\ outcome = "ok"
    /\ real_pre = <<nA, nB \o <<".", "1">>, nB \o <<".", "2">>, nB \o <<".", "3">>>>

\* C6: when build_adjacency_graph returns without error, every action whose
\* Rank Table entry is > 1 is the target of exactly one edge; a workflow in
\* which an action referenced with a rank > 1 gets a second edge, whichever of
\* the two references comes first, fails with AmbiguousRankedPredecessor.
C6_SingleRankDeclaration ==
    /\ BuildDone =>
            \A a \in DOMAIN ranks : ranks[a] > 1 => InDegree(adj_graph, a) = 1
    /\ (/\ pc = "exit"
        /\ TargetDeclared
        /\ RefsParse
        /\ \E i, j \in 1..Len(RefSeq) :
              /\ i # j
              /\ extract_rank(RefSeq[i]).action_name = extract_rank(RefSeq[j]).action_name
              /\ extract_rank(RefSeq[i]).rank > 1)
            => outcome = "AmbiguousRankedPredecessor"

\* a string name(k): one "(", a closing ")" at the end, an integer in between
IsRankedForm(s) ==
    /\ Cardinality(Positions(s, "(")) = 1
    /\ s[Len(s)] = ")"
    /\ IsIntLiteral(SubSeq(s, Min(Positions(s, "(")) + 1, Len(s) - 1))

\* C7: extract_rank raises no error on any string; name(k) with an integer k
\* gives (name, k), every other shape gives (the whole string, 1).
C7_ExtractRankLenient ==
    pc = "exit" =>
        /\ parsed.raised = "none"
        /\ IF IsRankedForm(str_input)
           THEN /\ parsed.action_name = SubSeq(str_input, 1, Min(Positions(str_input, "(")) - 1)
                /\ parsed.rank = IntOf(SubSeq(str_input, Min(Positions(str_input, "(")) + 1,
                                              Len(str_input) - 1))
           ELSE /\ parsed.action_name = str_input
                /\ parsed.rank = 1

\* the scan for the initial function is over
FindInitialDone == BuildDone /\ pc # "find_initial"

\* positions of the declared actions whose Rank Table entry is 0
ZeroRanked ==
    {i \in 1..Len(ActionKeys(faasr_payload)) :
        /\ ActionKeys(faasr_payload)[i] \in DOMAIN ranks
        /\ ranks[ActionKeys(faasr_payload)[i]] = 0}

\* C8: the traversal root is the first declared action whose Rank Table entry
\* is 0; when no declared action has the entry 0, an action without any entry
\* included, validation fails with NoRoot.
C8_RootSelection ==
    FindInitialDone =>
        IF ZeroRanked = {}
        THEN pc = "exit" /\ outcome = "NoRoot"
        ELSE first_func = ActionKeys(faasr_payload)[Min(ZeroRanked)]

\* all declared actions lie on one directed cycle of declared edges
AllOnOneCycle ==
    /\ RefsParse
    /\ LET n == Cardinality(Declared)
       IN  \E ord \in [1..n -> Declared] :
              /\ \A i, j \in 1..n : i # j => ord[i] # ord[j]
              /\ \A i \in 1..n : <<ord[i], ord[(i % n) + 1]>> \in DeclaredEdges

\* C9, as claimed: a workflow whose declared actions all lie on one directed
\* cycle (A invokes B and B invokes A) fails validation with CyclicGraph.
\* Stated for declared targets, graphs the builder accepts and cycles of two
\* or more actions.
C9_CycleIsCyclicGraph ==
    (/\ pc = "exit"
     /\ TargetDeclared
     /\ BuildDone
     /\ AllOnOneCycle
     /\ Cardinality(Declared) >= 2)
        => outcome = "CyclicGraph"

\* C9, amended: such a workflow, when its target is declared and the builder
\* accepts it, fails with NoRoot: every declared action has an incoming edge
\* and so a rank. Only a rank of 0, written name(0), makes an action the root,
\* and then the failure is CyclicGraph.
C9_CycleIsNoRoot ==
    (pc = "exit" /\ TargetDeclared /\ BuildDone /\ AllOnOneCycle)
        => outcome = (IF ZeroRanked = {} THEN "NoRoot" ELSE "CyclicGraph")

\* A invokes B and B invokes A, or a longer cycle
C9_Witness ==
    /\ pc = "exit"
    /\ TargetDeclared
    /\ AllOnOneCycle
    /\ Cardinality(Declared) >= 2
    /\ outcome = "NoRoot"

\* C10: check_dag leaves the workflow definition unchanged, and a second run
\* on the same definition ends as the first did: the same error kind, or the
\* same predecessor list.
C10_Idempotent ==
    /\ [][faasr_payload' = faasr_payload]_vars
    /\ [](pc = "exit" /\ run = 2 =>
            /\ outcome = prev.outcome
            /\ real_pre = prev.real_pre
            /\ err_info = prev.err_info)

\* the second run returned a list with expanded predecessors
C10_Witness ==
    /\ pc = "exit"
    /\ run = 2
    /\ outcome = "ok"
    /\ Len(real_pre) > 1


\* the first declared action without an incoming edge
FirstDeclaredRoot ==
    LET keys == ActionKeys(faasr_payload)
    IN  keys[Min({i \in 1..Len(keys) : keys[i] \in DeclaredRoots})]

\* C11: when two or more declared actions have no predecessor, the first of
\* them in declaration order is the traversal root and validation fails with
\* UnreachableAction. Stated for declared targets and graphs the builder accepts.
C11_MultipleRootsUnreachable ==
    (/\ pc = "exit"
     /\ TargetDeclared
     /\ BuildDone
     /\ RefsParse
     /\ Cardinality(DeclaredRoots) >= 2)
        => (first_func = FirstDeclaredRoot /\ outcome = "UnreachableAction")

\* C12: at every point of the traversal the on-stack list of is_cyclic is no
\* longer than the number of actions declared in ActionList.
C12_DepthBoundedByActions ==
    Len(stack) <= Len(faasr_payload.ActionList)


\* the nodes visited and popped
Finished == visited \ Range(stack)

\* C13: when the traversal fails with CyclicGraph reporting (u, v), u -> v is
\* an edge of the Adjacency Graph, u is on top of the on-stack path and v is
\* on that path; a finished child never triggers CyclicGraph, so an acyclic
\* graph, with shared descendants or not, never fails with CyclicGraph.
C13_BackEdgeReported ==
    /\ outcome = "CyclicGraph" =>
          /\ Len(err_info) = 2
          /\ <<err_info[1], err_info[2]>> \in EdgeSet(adj_graph)
          /\ stack # <<>>
          /\ err_info[1] = stack[Len(stack)]
          /\ err_info[2] \in Range(stack)
          /\ err_info[2] \notin Finished
    /\ (pc = "exit" /\ RefsParse /\ Acyclic(DeclaredEdges)) => outcome # "CyclicGraph"

\* a loop is reported after a finished child was met again and skipped
C13_Witness ==
    /\ pc = "exit"
    /\ outcome = "CyclicGraph"
    /\ \E k \in 1..Top.idx : Children[k] \in Finished /\ \E j \in 1..(k - 1) : Children[j] = Children[k]

\* a loop of two or more nodes is reported
C13_WitnessLongLoop ==
    /\ pc = "exit"
    /\ outcome = "CyclicGraph"
    /\ err_info[1] # err_info[2]

\* a graph with a shared descendant passes: C is reached from A and from B
C13_WitnessShared ==
    /\ pc = "exit"
    /\ outcome = "ok"
    /\ {<<nA, nB>>, <<nA, nC>>, <<nB, nC>>} \subseteq EdgeSet(adj_graph)

\* C14: when validation fails with UnreachableAction naming X, X is a declared
\* action that is absent from the visited set, whatever characters, a dot
\* included, its name contains.
C14_UnreachableIsUnvisited ==
    outcome = "UnreachableAction" =>
        /\ Len(err_info) = 1
        /\ err_info[1] \in Declared
        /\ err_info[1] \notin visited

\* C15: whenever check_dag succeeds, every successor named in an InvokeNext
\* entry, plain or inside a conditional branch, is a key of ActionList: a
\* validated graph has no edge to an undeclared action.
C15_SuccessorsDeclared ==
    (pc = "exit" /\ outcome = "ok") => \A e \in DeclaredEdges : e[2] \in Declared

\* C16: for every definition build_adjacency_graph accepts, whatever integer
\* the references name(k) carry, the action selected as traversal root has no
\* incoming edge in the Adjacency Graph.
C16_RootHasNoIncomingEdge ==
    (BuildDone /\ RootSelected) => InDegree(adj_graph, first_func) = 0

\* the traversal of is_cyclic has returned to check_dag without an error
TraversalReturned ==
    \/ pc \in {"check_unreachable", "resolve"}
    \/ outcome \in {"ok", "UnreachableAction"}

\* the stack holds a path from the root, each node once, all of them visited
StackIsPath ==
    /\ \A i, j \in 1..Len(stack) : stack[i] = stack[j] => i = j
    /\ Range(stack) \subseteq visited
    /\ stack # <<>> => stack[1] = first_func
    /\ \A i \in 1..(Len(stack) - 1) : <<stack[i], stack[i + 1]>> \in EdgeSet(adj_graph)

\* a step pushes only a node that was not visited, and no step of the
\* traversal takes a node out of the visited set
PushesOnce ==
    /\ Len(stack') > Len(stack) =>
          /\ stack' = Append(stack, stack'[Len(stack')])
          /\ stack'[Len(stack')] \notin visited
    /\ (pc = "dfs" /\ pc' # "start") => visited \subseteq visited'

\* C17: at every step of is_cyclic started from the root with an empty stack
\* and an empty visited set, the stack holds no node twice, every node on it
\* is visited, its first element is the root and each consecutive pair is an
\* edge of the Adjacency Graph; a node is pushed at most once in a traversal,
\* and the stack is empty again when the traversal returns without error.
C17_DfsStackInvariant ==
    /\ [](StackIsPath /\ (TraversalReturned => stack = <<>>))
    /\ [][PushesOnce]_vars

\* the traversal is three calls deep
C17_Witness == pc = "dfs" /\ Len(stack) = 3

\* the traversal has returned after it visited three nodes
C17_WitnessReturned == pc = "check_unreachable" /\ stack = <<>> /\ Cardinality(visited) = 3

====
